---- MODULE Spec2Model ----
(***************************************************************************)
(* express-songs: the HTTP handlers of the song server (src/unnamed/       *)
(* part_001, lines 1-400), the session guard and the Google login of       *)
(* src/Auth.js, over the tables of src/sequelize.js.                       *)
(*                                                                         *)
(* A request occupies a slot of req.  Every promise callback of a handler  *)
(* is one action; storage operations of different requests interleave.     *)
(***************************************************************************)
EXTENDS Integers, Sequences, FiniteSets, TLC

\* ------------------------------------------------------------------ bounds
MaxReq == 2
MaxArrivals == 2
MaxClock == 2
MaxFailures == 1

\* ------------------------------------------------------- program constants
\* "Maximum of 5 videos allowed": videos.length > 5
MaxVideos == 5

VARIABLES
    users,      \* table users:  rows [id, google_login_id]
    songs,      \* table songs:  rows [id, title, artist, user_id]
    tabs,       \* table tabs:   rows [id, text, song_id]
    videos,     \* table videos: rows [id, video_type, url, song_id]
    req,        \* request slot -> the request in it and its handler's position
    now,        \* the clock jwt.verify reads (seconds)
    issued,     \* session tokens login has signed
    failures,   \* storage operations that have failed so far
    arrivals,   \* requests received so far
    logins,     \* what login has answered, in order: [sub, user_id]
    created,    \* ids of the songs whose POST was answered 201
    nextId      \* source of generated primary keys (UUIDV4 defaults)

vars == <<users, songs, tabs, videos, req, now, issued, failures, nextId, arrivals,
          logins, created>>

Slots == 1..MaxReq

Null == [k |-> "null"]

\* ------------------------------------------------------------ session token
\* jwt.sign({ user_id }, privateKey): no expiresIn option, so the payload is
\* {user_id, iat} and carries no exp claim.
Sign(uid, t) ==
    [k |-> "jwt", user_id |-> uid, iat |-> t, hasExp |-> FALSE, exp |-> 0, sig |-> "good"]

\* jwt.verify(token, privateKey): throws for a missing token, for a string that
\* is no JWT, for a signature privateKey did not make, and for an exp claim that
\* the clock has reached; otherwise it returns the payload.
VerifyThrows(tok, t) ==
    \/ tok.k # "jwt"
    \/ tok.sig # "good"
    \/ (tok.hasExp /\ t >= tok.exp)

Payload(tok) ==
    [k |-> "claims", user_id |-> tok.user_id, iat |-> tok.iat,
     hasExp |-> tok.hasExp, exp |-> tok.exp]

\* Line 38 without the optional chaining: split of undefined throws.
HeaderToken_NoOptionalChaining(hdr) ==
    IF hdr.k = "absent" THEN [k |-> "throw"]
    ELSE IF Len(hdr.parts) >= 2 THEN hdr.parts[2]
    ELSE [k |-> "undefined"]

\* req.headers['authorization']?.split(' ')[1]
HeaderToken(hdr) ==
    IF hdr.k = "absent" THEN [k |-> "undefined"]
    ELSE IF Len(hdr.parts) >= 2 THEN hdr.parts[2]
    ELSE [k |-> "undefined"]

\* Auth.js:37-45.  Line 38 stands outside the try: what it throws escapes.
decodeSessionToken(hdr, t) ==
    LET token == HeaderToken(hdr)
    IN  IF token.k = "throw" THEN [k |-> "throw"]
        ELSE IF VerifyThrows(token, t) THEN Null
        ELSE Payload(token)

Unauthorized == [status |-> 401, tag |-> "error", message |-> "Unauthorized", data |-> <<>>]

\* A guard that answers 401 and goes on to the handler all the same.
requireAuth_SendsAndContinues(hdr, t) ==
    LET decoded == decodeSessionToken(hdr, t)
    IN  IF decoded = Null
        THEN [sent |-> <<Unauthorized>>, next |-> 0, token |-> Null]
        ELSE [sent |-> <<Unauthorized>>, next |-> 1, token |-> decoded]

\* requireAuth(req, res, next): what it sends, whether it calls next, and the
\* claims it attaches.
requireAuth(hdr, t) ==
    LET decoded == decodeSessionToken(hdr, t)
    IN  IF decoded = Null
        THEN [sent |-> <<Unauthorized>>, next |-> 0, token |-> Null]
        ELSE [sent |-> <<>>, next |-> 1, token |-> decoded]

\* ----------------------------------------------------------------- responses
InternalError ==
    [status |-> 500, tag |-> "error", message |-> "Internal Server Error", data |-> <<>>]

\* Express's own error handler, reached when a handler throws synchronously
\* (and, from Express 5 on, when an async handler's promise rejects).
ExpressError ==
    [status |-> 500, tag |-> "express", message |-> "Internal Server Error", data |-> <<>>]

BadRequest(msg) == [status |-> 400, tag |-> "error", message |-> msg, data |-> <<>>]

\* part_001:63-67 answers {id: 'not_found', ...}; the other four handlers
\* answer {status: 'error', ...}.
NotFound(tag) == [status |-> 404, tag |-> tag, message |-> "Song not found", data |-> <<>>]

Ok(status, data) == [status |-> status, tag |-> "ok", message |-> "", data |-> data]

\* ---------------------------------------------------------------- validation
Absent == [k |-> "absent"]

\* JavaScript truthiness of the body's videos value.
Truthy(v) ==
    CASE v.k = "absent" -> FALSE
      [] v.k = "null"   -> FALSE
      [] v.k = "str"    -> v.s # ""
      [] v.k = "num"    -> v.n # 0
      [] v.k = "bool"   -> v.b
      [] v.k = "obj"    -> TRUE
      [] v.k = "list"   -> TRUE

IsArray(v) == v.k = "list"

\* !v.url || !v.video_type, for an entry that is an object
EntryLacksField(e) == e.url = "" \/ e.video_type = ""

\* videos.some(v => !v.url || !v.video_type): the entries are visited in order
\* and the visit stops at the first hit; reading .url of a null entry throws.
FirstBad(items) ==
    LET bad == {i \in 1..Len(items) : items[i].k = "null" \/ EntryLacksField(items[i])}
    IN  IF bad = {} THEN 0 ELSE CHOOSE i \in bad : \A j \in bad : i <= j

\* The four checks POST and PUT run before any storage call, in their order:
\* "ok", "throw" (a TypeError out of the handler) or the message of the 400.
Validate(body) ==
    IF body.title = "" \/ body.artist = "" \/ body.tab_text = ""
    THEN "title, artist, and tab_text are required"
    ELSE IF Truthy(body.videos) /\ ~IsArray(body.videos)
    THEN "videos must be an array"
    ELSE IF Truthy(body.videos) /\ Len(body.videos.items) > MaxVideos
    THEN "Maximum of 5 videos allowed"
    ELSE IF Truthy(body.videos) /\ FirstBad(body.videos.items) # 0
    THEN IF body.videos.items[FirstBad(body.videos.items)].k = "null"
         THEN "throw"
         ELSE "Each video must have a url and video_type"
    ELSE "ok"

\* (videos || [])
VideoList(body) == IF Truthy(body.videos) THEN body.videos.items ELSE <<>>

\* ------------------------------------------------------------------- storage
\* A lookup by id alone, whoever owns the song.
FindSong_AnyOwner(ss, id, uid) == {s \in ss : s.id = id}

\* Song.findOne({ where: { id, user_id } })
FindSong(ss, id, uid) == {s \in ss : s.id = id /\ s.user_id = uid}

\* A lookup that ignores the subject.
FindUser_AnySubject(us, sub) == us

\* User.findOne({ where: { google_login_id } })
FindUser(us, sub) == {u \in us : u.google_login_id = sub}

\* Lines 25-33 of Auth.js, the branch for a subject without a User: uuidv4 is
\* bound nowhere in Auth.js (lines 1-7 import no uuid), so line 27 throws a
\* ReferenceError before line 29 is reached; and sequelize.models.user names
\* no model (src/sequelize.js:10 defines 'User').
\* (NotFoundBranch_Creates is the branch as it would run with uuidv4 and the
\* model bound: it inserts the User.)
NotFoundBranch_Creates(us, sub, id) ==
    [threw |-> FALSE, users |-> us \cup {[id |-> id, google_login_id |-> sub]},
     user_id |-> id]

NotFoundBranch(us, sub, id) == [threw |-> TRUE, users |-> us, user_id |-> id]

\* ------------------------------------------------------------------ requests
NoBody == [title |-> "", artist |-> "", tab_text |-> "", videos |-> Absent]
NoExt == [k |-> "none"]

IdleReq ==
    [pc |-> "idle", ep |-> "none", hdr |-> Absent, sid |-> 0, body |-> NoBody,
     ext |-> NoExt, token |-> Null, nextCalls |-> 0, resps |-> <<>>, ops |-> 0,
     unhandled |-> 0, rejected |-> 0, found |-> Null, song |-> Null, tab |-> Null,
     tabP |-> "none", all |-> "none", pend |-> {}, waits |-> {}, nvid |-> 0, made |-> {},
     existing |-> <<>>]

SongIdEps == {"getSong", "getTab", "getVideos", "put", "delete"}

Bearer(tok) == [k |-> "value", parts |-> <<[k |-> "word", s |-> "Bearer"], tok>>]

Forged(uid) ==
    [k |-> "jwt", user_id |-> uid, iat |-> 0, hasExp |-> FALSE, exp |-> 0, sig |-> "bad"]

\* jwt.sign({ user_id }, privateKey, { expiresIn }), as the tests sign
Expiring(uid, t, exp) ==
    [k |-> "jwt", user_id |-> uid, iat |-> t, hasExp |-> TRUE, exp |-> exp, sig |-> "good"]

\* What a client can put in the Authorization header: nothing, a token signed
\* with another key, an expired token, a session token of an earlier login, one
\* issued in this run.
Headers ==
    {Absent, Bearer(Forged(1)), Bearer(Expiring(1, 0, 0)), Bearer(Sign(1, 0)),
     Bearer(Sign(2, 0))}
        \cup {Bearer(t) : t \in issued}

ExtTokens ==
    {[k |-> "invalid"]} \cup
    {[k |-> "valid", sub |-> g, name |-> "N", email |-> "E"] : g \in {"g1", "g2", "g3"}}

NewVideo == [k |-> "obj", id |-> 0, url |-> "u", video_type |-> "yt"]
KeepVideo(id) == [k |-> "obj", id |-> id, url |-> "u2", video_type |-> "yt"]

Body(vs) == [title |-> "T", artist |-> "A", tab_text |-> "x", videos |-> vs]
List(items) == [k |-> "list", items |-> items]

\* The bodies the server is sent: three that pass the checks (no videos; one
\* kept and one new video; a falsy videos value that is no list) and one per
\* way of failing them.
Bodies ==
    {Body(Absent), Body(List(<<KeepVideo(7), NewVideo>>)), Body([k |-> "str", s |-> ""]),
     [Body(Absent) EXCEPT !.title = ""],
     Body([k |-> "str", s |-> "abc"]),
     Body(List(<<NewVideo, NewVideo, NewVideo, NewVideo, NewVideo, NewVideo>>)),
     Body(List(<<[NewVideo EXCEPT !.url = ""]>>)),
     Body(List(<<[k |-> "null"]>>))}

Init ==
    /\ users = {[id |-> 1, google_login_id |-> "g1"], [id |-> 2, google_login_id |-> "g2"]}
    /\ songs = {[id |-> 3, title |-> "Wonderwall", artist |-> "Oasis", user_id |-> 1],
                [id |-> 4, title |-> "Creep", artist |-> "Radiohead", user_id |-> 2]}
    /\ tabs = {[id |-> 5, text |-> "Em7 G", song_id |-> 3],
               [id |-> 6, text |-> "G B C", song_id |-> 4]}
    /\ videos = {[id |-> 7, video_type |-> "yt", url |-> "u", song_id |-> 3]}
    /\ req = [r \in Slots |-> IdleReq]
    /\ now = 0
    /\ issued = {}
    /\ failures = 0
    /\ nextId = 8
    /\ arrivals = 0
    /\ logins = <<>>
    /\ created = {3, 4}

\* No finished request is waiting to leave its slot.
Live == \A p \in Slots : req[p].pc # "done"

\* A step of the request in slot r.
Set(r, rec) == Live /\ req' = [req EXCEPT ![r] = rec]
Respond(q, resp) == [q EXCEPT !.resps = Append(@, resp)]
Caller(q) == q.token.user_id

\* A storage operation of the request has rejected.
Rejected(q) == [q EXCEPT !.rejected = @ + 1]

\* A promise rejects and no catch is attached to its chain: nothing answers.
Unhandled(q) == [q EXCEPT !.unhandled = @ + 1, !.pc = "done"]

\* ------------------------------------------------- POST /api/auth/google
\* await client.verifyIdToken(...).  A rejection leaves handleGoogleAuth's
\* promise rejected with nobody to catch it: Express 4 never answers, Express 5
\* hands it to its error handler.
VerifyIdToken(r) ==
    LET q == req[r]
    IN  /\ q.pc = "verify"
        /\ IF q.ext.k = "valid"
           THEN Set(r, [q EXCEPT !.pc = "findUser", !.ops = @ + 1])
           ELSE \/ Set(r, Unhandled(q))
                \/ Set(r, [Respond(q, ExpressError) EXCEPT !.pc = "done"])
        /\ UNCHANGED <<users, songs, tabs, videos, now, issued, failures, nextId, arrivals, logins, created>>

\* The SELECT of User.findOne runs.  On a storage failure the promise rejects
\* and the chain of Auth.js:19 has no catch.
FindUserQuery(r) ==
    LET q == req[r]
        hit == FindUser(users, q.ext.sub)
    IN  /\ q.pc = "findUser"
        /\ \/ /\ failures < MaxFailures
              /\ failures' = failures + 1
              /\ Set(r, Rejected(Unhandled(q)))
           \/ /\ hit = {}
              /\ Set(r, [q EXCEPT !.pc = "userThen", !.found = Null])
              /\ UNCHANGED failures
           \/ /\ \E u \in hit : Set(r, [q EXCEPT !.pc = "userThen", !.found = u])
              /\ UNCHANGED failures
        /\ UNCHANGED <<users, songs, tabs, videos, now, issued, nextId, arrivals, logins, created>>

LoginBody(q, uid, tok) ==
    Ok(200, <<[name |-> q.ext.name, email |-> q.ext.email, user_id |-> uid,
               session_jwt |-> tok]>>)

\* The callback of Auth.js:19-34.
FindUserThen(r) ==
    LET q == req[r]
        b == NotFoundBranch(users, q.ext.sub, nextId)
    IN  /\ q.pc = "userThen"
        /\ IF q.found # Null
           THEN /\ Set(r, [Respond(q, LoginBody(q, q.found.id, Sign(q.found.id, now)))
                             EXCEPT !.pc = "done"])
                /\ issued' = issued \cup {Sign(q.found.id, now)}
                /\ logins' = Append(logins, [sub |-> q.ext.sub, user_id |-> q.found.id])
                /\ UNCHANGED <<users, nextId>>
           ELSE IF b.threw
           THEN /\ Set(r, Unhandled(q))
                /\ UNCHANGED <<users, issued, nextId, logins>>
           ELSE /\ users' = b.users
                /\ nextId' = nextId + 1
                /\ Set(r, [Respond(q, LoginBody(q, b.user_id, Sign(b.user_id, now)))
                             EXCEPT !.pc = "done", !.ops = @ + 1,
                                    !.made = @ \cup {b.user_id}])
                /\ issued' = issued \cup {Sign(b.user_id, now)}
                /\ logins' = Append(logins, [sub |-> q.ext.sub, user_id |-> b.user_id])
        /\ UNCHANGED <<songs, tabs, videos, now, failures, arrivals, created>>

\* A storage operation may fail (the promise rejects), MaxFailures times in all.
Fails ==
    /\ failures < MaxFailures
    /\ failures' = failures + 1

\* ------------------------------------------------------- GET /api/songs
\* part_001:22-54.  limit, offset, query and the order shape the list only.
ListSongs(q) == [q EXCEPT !.pc = "listQ", !.ops = @ + 1]

ListSongsDone(r) ==
    LET q == req[r]
    IN  /\ q.pc = "listQ"
        /\ \/ /\ Fails
              /\ Set(r, Rejected([Respond(q, InternalError) EXCEPT !.pc = "done"]))
           \/ /\ Set(r, [Respond(q, Ok(200, <<{s \in songs : s.user_id = Caller(q)}>>))
                           EXCEPT !.pc = "done"])
              /\ UNCHANGED failures
        /\ UNCHANGED <<users, songs, tabs, videos, now, issued, nextId, arrivals, logins, created>>

\* --------------------------------------------------- GET /api/songs/:id
\* part_001:56-86
GetSong(q) == [q EXCEPT !.pc = "songQ", !.ops = @ + 1]

SongView(s) == [id |-> s.id, title |-> s.title, artist |-> s.artist]

GetSongDone(r) ==
    LET q == req[r]
        hit == FindSong(songs, q.sid, Caller(q))
    IN  /\ q.pc = "songQ"
        /\ \/ /\ Fails
              /\ Set(r, Rejected([Respond(q, InternalError) EXCEPT !.pc = "done"]))
           \/ /\ hit = {}
              /\ Set(r, [Respond(q, NotFound("not_found")) EXCEPT !.pc = "done"])
              /\ UNCHANGED failures
           \/ /\ \E s \in hit :
                    Set(r, [Respond(q, Ok(200, <<SongView(s)>>)) EXCEPT !.pc = "done"])
              /\ UNCHANGED failures
        /\ UNCHANGED <<users, songs, tabs, videos, now, issued, nextId, arrivals, logins, created>>

\* ------------------------------------------------ GET /api/tabs/:songId
\* part_001:88-118
GetTab(q) == [q EXCEPT !.pc = "tabSongQ", !.ops = @ + 1]

\* The song lookup answers; Tab.findOne is then started without being returned
\* to the chain that carries the catch.
GetTabSong(r) ==
    LET q == req[r]
        hit == FindSong(songs, q.sid, Caller(q))
    IN  /\ q.pc = "tabSongQ"
        /\ \/ /\ Fails
              /\ Set(r, Rejected([Respond(q, InternalError) EXCEPT !.pc = "done"]))
           \/ /\ hit = {}
              /\ Set(r, [Respond(q, NotFound("error")) EXCEPT !.pc = "done"])
              /\ UNCHANGED failures
           \/ /\ hit # {}
              /\ Set(r, [q EXCEPT !.pc = "tabQ", !.ops = @ + 1])
              /\ UNCHANGED failures
        /\ UNCHANGED <<users, songs, tabs, videos, now, issued, nextId, arrivals, logins, created>>

\* Tab.findOne({ where: { song_id } }) answers: a rejection, or a null result
\* (result.id throws), is an unhandled rejection.
GetTabDone(r) ==
    LET q == req[r]
        hit == {t \in tabs : t.song_id = q.sid}
    IN  /\ q.pc = "tabQ"
        /\ \/ /\ Fails
              /\ Set(r, Rejected(Unhandled(q)))
           \/ /\ hit = {}
              /\ Set(r, Unhandled(q))
              /\ UNCHANGED failures
           \/ /\ \E t \in hit :
                    Set(r, [Respond(q, Ok(200, <<[id |-> t.id, text |-> t.text]>>))
                              EXCEPT !.pc = "done"])
              /\ UNCHANGED failures
        /\ UNCHANGED <<users, songs, tabs, videos, now, issued, nextId, arrivals, logins, created>>

\* ---------------------------------------------- GET /api/videos/:songId
\* part_001:120-151
GetVideos(q) == [q EXCEPT !.pc = "vidSongQ", !.ops = @ + 1]

GetVideosSong(r) ==
    LET q == req[r]
        hit == FindSong(songs, q.sid, Caller(q))
    IN  /\ q.pc = "vidSongQ"
        /\ \/ /\ Fails
              /\ Set(r, Rejected([Respond(q, InternalError) EXCEPT !.pc = "done"]))
           \/ /\ hit = {}
              /\ Set(r, [Respond(q, NotFound("error")) EXCEPT !.pc = "done"])
              /\ UNCHANGED failures
           \/ /\ hit # {}
              /\ Set(r, [q EXCEPT !.pc = "vidQ", !.ops = @ + 1])
              /\ UNCHANGED failures
        /\ UNCHANGED <<users, songs, tabs, videos, now, issued, nextId, arrivals, logins, created>>

VideoView(v) == [id |-> v.id, video_type |-> v.video_type, url |-> v.url]

GetVideosDone(r) ==
    LET q == req[r]
    IN  /\ q.pc = "vidQ"
        /\ \/ /\ Fails
              /\ Set(r, Rejected(Unhandled(q)))
           \/ /\ Set(r, [Respond(q, Ok(200, <<{VideoView(v) : v \in
                                                 {w \in videos : w.song_id = q.sid}}>>))
                           EXCEPT !.pc = "done"])
              /\ UNCHANGED failures
        /\ UNCHANGED <<users, songs, tabs, videos, now, issued, nextId, arrivals, logins, created>>

\* ------------------------------------------------ promises of one handler
\* A storage operation in flight: its kind, the row id it addresses and the
\* index of the body's video entry it carries.
Op(op, id, i) == [op |-> op, id |-> id, i |-> i]

\* The handlers whose Promise.all is returned to the chain that has the catch
\* (part_001:171, 241); PUT's is not (part_001:331, 363).
Caught(ep) == ep \in {"post", "delete"}

Finish(q) == [q EXCEPT !.pc = IF q.pend = {} THEN "done" ELSE "run"]

\* A then attached to each promise instead of one on Promise.all: every
\* operation that completes sends `success`.
OpOk_EachSends(q, o, success) ==
    Finish(Respond([q EXCEPT !.pend = @ \ {o}, !.waits = @ \ {o}], success))

\* Operation o completes.  Promise.all fulfils, and its then sends `success`,
\* once nothing it waits for is left.
OpOk(q, o, success) ==
    LET q1 == [q EXCEPT !.pend = @ \ {o}, !.waits = @ \ {o}]
    IN  IF q1.all = "pending" /\ q1.waits = {}
        THEN Finish([Respond(q1, success) EXCEPT !.all = "fulfilled"])
        ELSE Finish(q1)

\* Operation o rejects.  The first rejection among the awaited promises rejects
\* Promise.all: the catch answers 500 where there is one.  A rejection nobody
\* waits for is lost.
OpFail(q, o) ==
    LET q1 == [q EXCEPT !.pend = @ \ {o}]
    IN  IF o \in q.waits /\ q.all = "pending"
        THEN IF Caught(q.ep)
             THEN Finish([Respond(q1, InternalError) EXCEPT !.all = "rejected"])
             ELSE Finish([q1 EXCEPT !.all = "rejected", !.unhandled = @ + 1])
        ELSE IF o \in q.waits
        THEN Finish(q1)
        ELSE Finish([q1 EXCEPT !.unhandled = @ + 1])

\* --------------------------------------------- DELETE /api/songs/:songId
\* part_001:153-184
DeleteSong(q) == [q EXCEPT !.pc = "delFind", !.ops = @ + 1]

DeleteOps == {Op("destroyVideos", 0, 0), Op("destroyTab", 0, 0), Op("destroySong", 0, 0)}

\* A Promise.all that waits for song.destroy() alone.
DeleteAwaited_SongOnly == {Op("destroySong", 0, 0)}

\* Promise.all([videoPromise, tabPromise, songPromise])
DeleteAwaited == DeleteOps

\* The song lookup answers; the three destroys start together.
DeleteFound(r) ==
    LET q == req[r]
        hit == FindSong(songs, q.sid, Caller(q))
    IN  /\ q.pc = "delFind"
        /\ \/ /\ Fails
              /\ Set(r, Rejected([Respond(q, InternalError) EXCEPT !.pc = "done"]))
           \/ /\ hit = {}
              /\ Set(r, [Respond(q, NotFound("error")) EXCEPT !.pc = "done"])
              /\ UNCHANGED failures
           \/ /\ \E s \in hit :
                    Set(r, [q EXCEPT !.pc = "run", !.song = s, !.ops = @ + 3,
                                     !.pend = DeleteOps, !.waits = DeleteAwaited,
                                     !.all = "pending"])
              /\ UNCHANGED failures
        /\ UNCHANGED <<users, songs, tabs, videos, now, issued, nextId, arrivals, logins, created>>

\* Video.destroy({ where: { song_id } })
DestroyVideosDone(r) ==
    LET q == req[r]
        o == Op("destroyVideos", 0, 0)
    IN  /\ q.pc = "run" /\ q.ep = "delete" /\ o \in q.pend
        /\ \/ /\ Fails
              /\ Set(r, Rejected(OpFail(q, o)))
              /\ UNCHANGED videos
           \/ /\ videos' = {v \in videos : v.song_id # q.sid}
              /\ Set(r, OpOk(q, o, Ok(204, <<>>)))
              /\ UNCHANGED failures
        /\ UNCHANGED <<users, songs, tabs, now, issued, nextId, arrivals, logins, created>>

\* Tab.destroy({ where: { song_id } })
DestroyTabDone(r) ==
    LET q == req[r]
        o == Op("destroyTab", 0, 0)
    IN  /\ q.pc = "run" /\ q.ep = "delete" /\ o \in q.pend
        /\ \/ /\ Fails
              /\ Set(r, Rejected(OpFail(q, o)))
              /\ UNCHANGED tabs
           \/ /\ tabs' = {t \in tabs : t.song_id # q.sid}
              /\ Set(r, OpOk(q, o, Ok(204, <<>>)))
              /\ UNCHANGED failures
        /\ UNCHANGED <<users, songs, videos, now, issued, nextId, arrivals, logins, created>>

\* song.destroy()
DestroySongDone(r) ==
    LET q == req[r]
        o == Op("destroySong", 0, 0)
    IN  /\ q.pc = "run" /\ q.ep = "delete" /\ o \in q.pend
        /\ \/ /\ Fails
              /\ Set(r, Rejected(OpFail(q, o)))
              /\ UNCHANGED songs
           \/ /\ songs' = {s \in songs : s.id # q.song.id}
              /\ Set(r, OpOk(q, o, Ok(204, <<>>)))
              /\ UNCHANGED failures
        /\ UNCHANGED <<users, tabs, videos, now, issued, nextId, arrivals, logins, created>>

\* ------------------------------------------------------ POST /api/songs
\* part_001:186-270.  The synchronous part: the four checks, then Song.create,
\* which builds the instance with its generated id.
PostSong(q, id) ==
    LET v == Validate(q.body)
    IN  IF v = "ok"
        THEN [q EXCEPT !.pc = "createSong", !.ops = @ + 1,
                       !.song = [id |-> id, title |-> q.body.title,
                                 artist |-> q.body.artist, user_id |-> Caller(q)]]
        ELSE IF v = "throw" THEN [Respond(q, ExpressError) EXCEPT !.pc = "done"]
        ELSE [Respond(q, BadRequest(v)) EXCEPT !.pc = "done"]

\* Tab.create and one Video.create per entry, with the ids their instances get
PostOps(body, base) ==
    {Op("createTab", base, 0)} \cup
    {Op("createVideo", base + i, i) : i \in 1..Len(VideoList(body))}

\* The body of the 201 (part_001:243-258).  tab.id and tab.text are read off
\* tabPromise, and each video's fields off its promise: all undefined, and
\* JSON leaves an undefined property out.  <<>> is the object {}.
PostCreated(q) ==
    Ok(201, <<[song |-> SongView(q.song), tab |-> <<>>,
               videos |-> [i \in 1..Len(VideoList(q.body)) |-> <<>>]]>>)

\* Song.create answers; Tab.create and one Video.create per entry start.
PostSongCreated(r) ==
    LET q == req[r]
        ops == PostOps(q.body, nextId)
    IN  /\ q.pc = "createSong"
        /\ \/ /\ Fails
              /\ Set(r, Rejected([Respond(q, InternalError) EXCEPT !.pc = "done"]))
              /\ UNCHANGED <<songs, nextId>>
           \/ /\ songs' = songs \cup {q.song}
              /\ nextId' = nextId + Cardinality(ops)
              /\ Set(r, [q EXCEPT !.pc = "run", !.ops = @ + Cardinality(ops),
                                  !.pend = ops, !.waits = ops, !.all = "pending",
                                  !.made = @ \cup {q.song.id}])
              /\ UNCHANGED failures
        /\ UNCHANGED <<users, tabs, videos, now, issued, arrivals, logins, created>>

\* The songs answered 201, once the POST in q has run one more callback.
Created(were, q) ==
    IF \E i \in 1..Len(q.resps) : q.resps[i].status = 201
    THEN were \cup {q.song.id}
    ELSE were

\* Tab.create({ text: tab_text, song_id: song.id })
CreateTabDone(r, o) ==
    LET q == req[r]
    IN  /\ q.pc = "run" /\ q.ep = "post" /\ o \in q.pend /\ o.op = "createTab"
        /\ \/ /\ Fails
              /\ Set(r, Rejected(OpFail(q, o)))
              /\ UNCHANGED <<tabs, created>>
           \/ /\ tabs' = tabs \cup {[id |-> o.id, text |-> q.body.tab_text,
                                     song_id |-> q.song.id]}
              /\ Set(r, OpOk([q EXCEPT !.made = @ \cup {o.id}], o, PostCreated(q)))
              /\ created' = Created(created, req'[r])
              /\ UNCHANGED failures
        /\ UNCHANGED <<users, songs, videos, now, issued, nextId, arrivals, logins>>

\* Video.create({ url, video_type, song_id: song.id }), one entry's
CreateVideoDone(r, o) ==
    LET q == req[r]
        e == VideoList(q.body)[o.i]
    IN  /\ q.pc = "run" /\ q.ep = "post" /\ o \in q.pend /\ o.op = "createVideo"
        /\ \/ /\ Fails
              /\ Set(r, Rejected(OpFail(q, o)))
              /\ UNCHANGED <<videos, created>>
           \/ /\ videos' = videos \cup {[id |-> o.id, video_type |-> e.video_type,
                                         url |-> e.url, song_id |-> q.song.id]}
              /\ Set(r, OpOk([q EXCEPT !.made = @ \cup {o.id}], o, PostCreated(q)))
              /\ created' = Created(created, req'[r])
              /\ UNCHANGED failures
        /\ UNCHANGED <<users, songs, tabs, now, issued, nextId, arrivals, logins>>

\* ------------------------------------------------ PUT /api/songs/:songId
\* part_001:272-392.  The synchronous part: the four checks, then Song.findOne.
PutSong(q) ==
    LET v == Validate(q.body)
    IN  IF v = "ok" THEN [q EXCEPT !.pc = "putFind", !.ops = @ + 1]
          ELSE IF v = "throw" THEN [Respond(q, ExpressError) EXCEPT !.pc = "done"]
          ELSE [Respond(q, BadRequest(v)) EXCEPT !.pc = "done"]

TabFind == Op("tabFind", 0, 0)
TabSave == Op("tabSave", 0, 0)
TabPromise == Op("tabPromise", 0, 0)
VideoFindAll == Op("videoFindAll", 0, 0)

\* The song lookup answers.  title and artist are assigned to the instance
\* (part_001:319-320) and the instance is never saved.  Tab.findOne and
\* Video.findAll start; the chain of Video.findAll is not returned.
PutFound(r) ==
    LET q == req[r]
        hit == FindSong(songs, q.sid, Caller(q))
    IN  /\ q.pc = "putFind"
        /\ \/ /\ Fails
              /\ Set(r, Rejected([Respond(q, InternalError) EXCEPT !.pc = "done"]))
           \/ /\ hit = {}
              /\ Set(r, [Respond(q, NotFound("error")) EXCEPT !.pc = "done"])
              /\ UNCHANGED failures
           \/ /\ \E s \in hit :
                    Set(r, [q EXCEPT !.pc = "run",
                                     !.song = [s EXCEPT !.title = q.body.title,
                                                        !.artist = q.body.artist],
                                     !.ops = @ + 2, !.tabP = "pending",
                                     !.pend = {TabFind, VideoFindAll}])
              /\ UNCHANGED failures
        /\ UNCHANGED <<users, songs, tabs, videos, now, issued, nextId, arrivals, logins, created>>

\* tabPromise rejects: Promise.all, if it is already waiting, rejects with it.
TabRejected(q, o) ==
    LET q1 == [q EXCEPT !.pend = @ \ {o}, !.tabP = "rej"]
    IN  IF q.all = "pending"
        THEN Finish([q1 EXCEPT !.all = "rejected", !.unhandled = @ + 1])
        ELSE Finish(q1)

\* Tab.findOne({ where: { song_id } }) answers (part_001:322-329).
PutTabFound(r) ==
    LET q == req[r]
        hit == {t \in tabs : t.song_id = q.sid}
    IN  /\ q.pc = "run" /\ q.ep = "put" /\ TabFind \in q.pend
        /\ \/ /\ Fails
              /\ Set(r, Rejected(TabRejected(q, TabFind)))
           \/ /\ hit = {}
              /\ Set(r, TabRejected(q, TabFind))
              /\ UNCHANGED failures
           \/ /\ \E t \in hit :
                    Set(r, [q EXCEPT !.tab = [t EXCEPT !.text = q.body.tab_text],
                                     !.pend = (@ \ {TabFind}) \cup {TabSave},
                                     !.ops = @ + 1])
              /\ UNCHANGED failures
        /\ UNCHANGED <<users, songs, tabs, videos, now, issued, nextId, arrivals, logins, created>>

\* The body of the 200 (part_001:365-380): the instance's title and artist,
\* tab fields read off tabPromise and video fields read off the promises.
PutUpdated(q, n) ==
    Ok(200, <<[song |-> SongView(q.song), tab |-> <<>>, videos |-> [i \in 1..n |-> <<>>]]>>)

\* tab.save(): UPDATE tabs SET text WHERE id = tab.id
PutTabSaved(r) ==
    LET q == req[r]
        q1 == [q EXCEPT !.tabP = "ok"]
    IN  /\ q.pc = "run" /\ q.ep = "put" /\ TabSave \in q.pend
        /\ \/ /\ Fails
              /\ Set(r, Rejected(TabRejected(q, TabSave)))
              /\ UNCHANGED tabs
           \/ /\ tabs' = {IF t.id = q.tab.id THEN [t EXCEPT !.text = q.tab.text] ELSE t :
                            t \in tabs}
              /\ Set(r, OpOk([q1 EXCEPT !.waits = @ \ {TabPromise}], TabSave,
                         PutUpdated(q, q.nvid)))
              /\ UNCHANGED failures
        /\ UNCHANGED <<users, songs, videos, now, issued, nextId, arrivals, logins, created>>

\* videos.find(v => v.id === video.id): the first entry that carries the id
FirstWithId(items, id) ==
    CHOOSE i \in 1..Len(items) :
        /\ items[i].id = id
        /\ \A j \in 1..Len(items) : items[j].id = id => i <= j

\* The reconciliation of part_001:333-361 against the rows Video.findAll
\* returned: the destroys, saves and creates it starts.
NewVideoIds(items) == {items[i].id : i \in 1..Len(items)} \ {0}
VideosToDelete(existing, items) ==
    {Op("del", v.id, 0) : v \in {w \in existing : w.id \notin NewVideoIds(items)}}
\* A reconciliation that picks the rows to update by id alone, among the
\* Videos of all songs.
VideosToUpdate_AnySong(existing, items) ==
    {Op("upd", v.id, FirstWithId(items, v.id)) :
        v \in {w \in videos : w.id \in NewVideoIds(items)}}

VideosToUpdate(existing, items) ==
    {Op("upd", v.id, FirstWithId(items, v.id)) :
        v \in {w \in existing : w.id \in NewVideoIds(items)}}
\* A reconciliation that also creates a row for every entry that has an id,
\* under that id.
VideosToCreate_ClientIds(items, base) ==
    {Op("cre", IF items[i].id = 0 THEN base + i ELSE items[i].id, i) :
        i \in 1..Len(items)}

\* A reconciliation that creates a row for every entry, with or without id.
VideosToCreate_EveryEntry(items, base) ==
    {Op("cre", base + i, i) : i \in 1..Len(items)}

VideosToCreate(items, base) ==
    {Op("cre", base + i, i) : i \in {j \in 1..Len(items) : items[j].id = 0}}

\* Video.findAll({ where: { song_id } }) answers and its callback runs.
PutVideosFound(r) ==
    LET q == req[r]
        existing == {v \in videos : v.song_id = q.sid}
        items == VideoList(q.body)
        dels == VideosToDelete(existing, items)
        cres == VideosToCreate(items, nextId)
        awaited == VideosToUpdate(existing, items) \cup cres
        q1 == [q EXCEPT !.existing = <<existing>>,
                        !.pend = (@ \ {VideoFindAll}) \cup dels \cup awaited,
                        !.waits = awaited \cup
                                  (IF q.tabP = "ok" THEN {} ELSE {TabPromise}),
                        !.nvid = Cardinality(awaited),
                        !.ops = @ + Cardinality(dels \cup awaited)]
    IN  /\ q.pc = "run" /\ q.ep = "put" /\ VideoFindAll \in q.pend
        /\ \/ /\ Fails
              /\ Set(r, Rejected(Finish([q EXCEPT !.pend = @ \ {VideoFindAll},
                                         !.all = "rejected", !.unhandled = @ + 1])))
              /\ UNCHANGED nextId
           \/ /\ Set(r, IF q.tabP = "rej"
                        THEN Finish([q1 EXCEPT !.all = "rejected", !.unhandled = @ + 1])
                        ELSE IF q1.waits = {}
                        THEN Finish([Respond(q1, PutUpdated(q1, q1.nvid))
                                       EXCEPT !.all = "fulfilled"])
                        ELSE Finish([q1 EXCEPT !.all = "pending"]))
              /\ nextId' = nextId + Len(items)
              /\ UNCHANGED failures
        /\ UNCHANGED <<users, songs, tabs, videos, now, issued, arrivals, logins, created>>

\* Video.destroy({ where: { id } }): started and not waited for (part_001:341)
PutVideoDestroyed(r, o) ==
    LET q == req[r]
    IN  /\ q.pc = "run" /\ q.ep = "put" /\ o \in q.pend /\ o.op = "del"
        /\ \/ /\ Fails
              /\ Set(r, Rejected(OpFail(q, o)))
              /\ UNCHANGED videos
           \/ /\ videos' = {v \in videos : v.id # o.id}
              /\ Set(r, OpOk(q, o, PutUpdated(q, q.nvid)))
              /\ UNCHANGED failures
        /\ UNCHANGED <<users, songs, tabs, now, issued, nextId, arrivals, logins, created>>

\* video.save(): UPDATE videos SET url, video_type WHERE id = video.id
PutVideoSaved(r, o) ==
    LET q == req[r]
        e == VideoList(q.body)[o.i]
    IN  /\ q.pc = "run" /\ q.ep = "put" /\ o \in q.pend /\ o.op = "upd"
        /\ \/ /\ Fails
              /\ Set(r, Rejected(OpFail(q, o)))
              /\ UNCHANGED videos
           \/ /\ videos' = {IF v.id = o.id
                            THEN [v EXCEPT !.url = e.url, !.video_type = e.video_type]
                            ELSE v : v \in videos}
              /\ Set(r, OpOk(q, o, PutUpdated(q, q.nvid)))
              /\ UNCHANGED failures
        /\ UNCHANGED <<users, songs, tabs, now, issued, nextId, arrivals, logins, created>>

\* Video.create({ url, video_type, song_id: songId })
PutVideoCreated(r, o) ==
    LET q == req[r]
        e == VideoList(q.body)[o.i]
    IN  /\ q.pc = "run" /\ q.ep = "put" /\ o \in q.pend /\ o.op = "cre"
        /\ \/ /\ Fails
              /\ Set(r, Rejected(OpFail(q, o)))
              /\ UNCHANGED videos
           \/ /\ videos' = videos \cup {[id |-> o.id, video_type |-> e.video_type,
                                         url |-> e.url, song_id |-> q.sid]}
              /\ Set(r, OpOk([q EXCEPT !.made = @ \cup {o.id}], o,
                             PutUpdated(q, q.nvid)))
              /\ UNCHANGED failures
        /\ UNCHANGED <<users, songs, tabs, now, issued, nextId, arrivals, logins, created>>

\* ------------------------------------------------------------- arrival
\* The route's handler up to its first pending promise.
Route(q, id) ==
    CASE q.ep = "list"      -> ListSongs(q)
      [] q.ep = "getSong"   -> GetSong(q)
      [] q.ep = "getTab"    -> GetTab(q)
      [] q.ep = "getVideos" -> GetVideos(q)
      [] q.ep = "delete"    -> DeleteSong(q)
      [] q.ep = "post"      -> PostSong(q, id)
      [] q.ep = "put"       -> PutSong(q)

\* app.<method>(path, requireAuth, handler): requireAuth (Auth.js:47-60), and
\* the handler only if requireAuth called next.
Guarded(q, t, id) ==
    LET a == requireAuth(q.hdr, t)
        q1 == [q EXCEPT !.resps = @ \o a.sent, !.nextCalls = @ + a.next,
                        !.token = a.token]
    IN  IF a.next = 1 THEN Route(q1, id) ELSE [q1 EXCEPT !.pc = "done"]

\* A request reaches the server and runs, in one turn of the event loop, up to
\* its first pending promise.  It takes the lowest free slot.  A request that is
\* answered within that turn has touched no table and met no other request: it
\* is explored with the server otherwise idle.
Arrive(r, ep, hdr, sid, body, ext) ==
    LET q == [IdleReq EXCEPT !.ep = ep, !.hdr = hdr, !.sid = sid, !.body = body,
                             !.ext = ext]
        q1 == IF ep = "login" THEN [q EXCEPT !.pc = "verify"] ELSE Guarded(q, now, nextId)
    IN  /\ Live
        /\ arrivals < MaxArrivals
        /\ req[r].pc = "idle"
        /\ \A p \in Slots : p < r => req[p].pc # "idle"
        /\ q1.pc = "done" => \A p \in Slots : req[p].pc = "idle"
        /\ arrivals' = arrivals + 1
        /\ req' = [req EXCEPT ![r] = q1]
        /\ nextId' = IF q1.pc = "createSong" THEN nextId + 1 ELSE nextId
        /\ UNCHANGED <<users, songs, tabs, videos, now, issued, failures, logins, created>>

\* The exchange is over (answered, or never to be answered) and nothing of the
\* handler is pending: the request leaves its slot.  A finished request never
\* acts again, so it leaves before anything else happens.
Retire(r) ==
    /\ req[r].pc = "done"
    /\ req' = [req EXCEPT ![r] = IdleReq]
    /\ UNCHANGED <<users, songs, tabs, videos, now, issued, failures, nextId, arrivals,
                   logins, created>>

\* -------------------------------------------------------------- the server
SongIds == {0} \cup {s.id : s \in songs}

Next ==
    \/ \E r \in Slots : Retire(r)
    \/ \E r \in Slots, ext \in ExtTokens : Arrive(r, "login", Absent, 0, NoBody, ext)
    \/ \E r \in Slots, hdr \in Headers : Arrive(r, "list", hdr, 0, NoBody, NoExt)
    \/ \E r \in Slots, ep \in {"getSong", "getTab", "getVideos", "delete"},
          hdr \in Headers, sid \in SongIds :
          Arrive(r, ep, hdr, sid, NoBody, NoExt)
    \/ \E r \in Slots, hdr \in Headers, body \in Bodies :
          Arrive(r, "post", hdr, 0, body, NoExt)
    \/ \E r \in Slots, hdr \in Headers, sid \in SongIds, body \in Bodies :
          Arrive(r, "put", hdr, sid, body, NoExt)
    \/ \E r \in Slots : VerifyIdToken(r)
    \/ \E r \in Slots : FindUserQuery(r)
    \/ \E r \in Slots : FindUserThen(r)
    \/ \E r \in Slots : ListSongsDone(r)
    \/ \E r \in Slots : GetSongDone(r)
    \/ \E r \in Slots : GetTabSong(r)
    \/ \E r \in Slots : GetTabDone(r)
    \/ \E r \in Slots : GetVideosSong(r)
    \/ \E r \in Slots : GetVideosDone(r)
    \/ \E r \in Slots : DeleteFound(r)
    \/ \E r \in Slots : DestroyVideosDone(r)
    \/ \E r \in Slots : DestroyTabDone(r)
    \/ \E r \in Slots : DestroySongDone(r)
    \/ \E r \in Slots : PostSongCreated(r)
    \/ \E r \in Slots : \E o \in req[r].pend : CreateTabDone(r, o)
    \/ \E r \in Slots : \E o \in req[r].pend : CreateVideoDone(r, o)
    \/ \E r \in Slots : PutFound(r)
    \/ \E r \in Slots : PutTabFound(r)
    \/ \E r \in Slots : PutTabSaved(r)
    \/ \E r \in Slots : PutVideosFound(r)
    \/ \E r \in Slots : \E o \in req[r].pend : PutVideoDestroyed(r, o)
    \/ \E r \in Slots : \E o \in req[r].pend : PutVideoSaved(r, o)
    \/ \E r \in Slots : \E o \in req[r].pend : PutVideoCreated(r, o)

Spec == Init /\ [][Next]_vars

\* ------------------------------------------- decodeSessionToken on its own
\* decodeSessionToken(req) called directly, as src/__tests__/Auth.test.js calls
\* it: any Authorization header, any token, at any time of the clock.
DecodeTokens ==
    {[k |-> "jwt", user_id |-> u, iat |-> 0, hasExp |-> h, exp |-> e, sig |-> g] :
        u \in 1..2, h \in BOOLEAN, e \in 0..MaxClock, g \in {"good", "bad"}}

DecodeHeaders ==
    {Absent,
     [k |-> "value", parts |-> <<[k |-> "word", s |-> "Bearer"]>>],
     Bearer([k |-> "word", s |-> "garbage"])}
        \cup {Bearer(t) : t \in DecodeTokens}
        \cup {[k |-> "value", parts |-> <<[k |-> "word", s |-> "Basic"], t>>] :
                 t \in DecodeTokens}

InitDecode ==
    /\ users = {[id |-> 1, google_login_id |-> "g1"], [id |-> 2, google_login_id |-> "g2"]}
    /\ songs = {}
    /\ tabs = {}
    /\ videos = {}
    /\ \E hdr \in DecodeHeaders :
          req = [r \in Slots |->
                    IF r = 1 THEN [IdleReq EXCEPT !.pc = "decode", !.hdr = hdr]
                    ELSE IdleReq]
    /\ now \in 0..MaxClock
    /\ issued = {}
    /\ failures = 0
    /\ nextId = 8
    /\ arrivals = 0
    /\ logins = <<>>
    /\ created = {}

\* const decoded = decodeSessionToken(req)
Decode(r) ==
    /\ req[r].pc = "decode"
    /\ req' = [req EXCEPT ![r].pc = "decoded",
                          ![r].token = decodeSessionToken(req[r].hdr, now)]
    /\ UNCHANGED <<users, songs, tabs, videos, now, issued, failures, nextId, arrivals,
                   logins, created>>

NextDecode == \E r \in Slots : Decode(r)

SpecDecode == InitDecode /\ [][NextDecode]_vars

\* ------------------------------------------------ one request at a time
\* One client that waits for each exchange to end before it sends the next
\* request: the owner of song 3 reads, updates and deletes it.  The song has
\* the five videos a create may give it.
SeedVideos ==
    {[id |-> i, video_type |-> "yt", url |-> "u", song_id |-> 3] : i \in 7..11}
        \cup {[id |-> 12, video_type |-> "yt", url |-> "u", song_id |-> 4]}

InitSeq ==
    /\ users = {[id |-> 1, google_login_id |-> "g1"], [id |-> 2, google_login_id |-> "g2"]}
    /\ songs = {[id |-> 3, title |-> "Wonderwall", artist |-> "Oasis", user_id |-> 1],
                [id |-> 4, title |-> "Creep", artist |-> "Radiohead", user_id |-> 2]}
    /\ tabs = {[id |-> 5, text |-> "Em7 G", song_id |-> 3],
               [id |-> 6, text |-> "G B C", song_id |-> 4]}
    /\ videos = SeedVideos
    /\ req = [r \in Slots |-> IdleReq]
    /\ now = 0
    /\ issued = {}
    /\ failures = 0
    /\ nextId = 13
    /\ arrivals = 0
    /\ logins = <<>>
    /\ created = {3, 4}

\* The list GET /api/videos/:songId answers (part_001:136-140), in id order,
\* as the client sends it back.
Entries(vs) ==
    [i \in 1..Cardinality(vs) |->
        LET v == CHOOSE x \in vs : Cardinality({y \in vs : y.id < x.id}) = i - 1
        IN  [k |-> "obj", id |-> v.id, url |-> v.url, video_type |-> v.video_type]]

\* The bodies of the client's updates: keep video 7 with a new url and add a
\* video; or send back the song's videos as they are stored.
SeqBodies ==
    {Body(List(<<KeepVideo(7), NewVideo>>)),
     Body(List(Entries({v \in videos : v.song_id = 3})))}

Alone == \A p \in Slots : req[p].pc = "idle"

NextSeq ==
    \/ \E r \in Slots : Retire(r)
    \/ \E r \in Slots, body \in SeqBodies :
          Alone /\ Arrive(r, "put", Bearer(Sign(1, 0)), 3, body, NoExt)
    \/ \E r \in Slots, ep \in {"getSong", "getTab", "getVideos", "delete"} :
          Alone /\ Arrive(r, ep, Bearer(Sign(1, 0)), 3, NoBody, NoExt)
    \/ \E r \in Slots : GetSongDone(r)
    \/ \E r \in Slots : GetTabSong(r)
    \/ \E r \in Slots : GetTabDone(r)
    \/ \E r \in Slots : GetVideosSong(r)
    \/ \E r \in Slots : GetVideosDone(r)
    \/ \E r \in Slots : DeleteFound(r)
    \/ \E r \in Slots : DestroyVideosDone(r)
    \/ \E r \in Slots : DestroyTabDone(r)
    \/ \E r \in Slots : DestroySongDone(r)
    \/ \E r \in Slots : PutFound(r)
    \/ \E r \in Slots : PutTabFound(r)
    \/ \E r \in Slots : PutTabSaved(r)
    \/ \E r \in Slots : PutVideosFound(r)
    \/ \E r \in Slots : \E o \in req[r].pend : PutVideoDestroyed(r, o)
    \/ \E r \in Slots : \E o \in req[r].pend : PutVideoSaved(r, o)
    \/ \E r \in Slots : \E o \in req[r].pend : PutVideoCreated(r, o)

SpecSeq == InitSeq /\ [][NextSeq]_vars

\* ==================================================================== claims

\* C1 as stated: on every endpoint that takes a songId, a song that exists but
\* belongs to another user is answered 404 'Song not found'.
C1_NotOwnedIs404 ==
    \A r \in Slots :
        LET q == req[r]
        IN  (/\ q.pc = "done"
             /\ q.ep \in SongIdEps
             /\ q.token # Null
             /\ \E s \in songs : s.id = q.sid /\ s.user_id # q.token.user_id)
            => /\ Len(q.resps) = 1
               /\ q.resps[1].status = 404
               /\ q.resps[1].message = "Song not found"

\* C1, amended: a song of another user is answered exactly as an id that names
\* no song, and never with 200 or 403: 404 'Song not found' once the handler's
\* owner-scoped lookup has answered; before that, PUT answers an invalid body
\* with its validation response whatever the id, and a lookup that fails is
\* answered 500.
C1_NotOwnedAsMissing ==
    \A r \in Slots :
        LET q == req[r]
            check == IF q.ep = "put" THEN Validate(q.body) ELSE "ok"
            expected ==
                IF check = "throw" THEN ExpressError
                ELSE IF check # "ok" THEN BadRequest(check)
                ELSE IF q.rejected > 0 THEN InternalError
                ELSE NotFound(IF q.ep = "getSong" THEN "not_found" ELSE "error")
        IN  (/\ q.pc = "done"
             /\ q.ep \in SongIdEps
             /\ q.token # Null
             /\ \/ q.sid = 0
                \/ \E s \in songs : s.id = q.sid /\ s.user_id # q.token.user_id)
            => /\ q.resps = <<expected>>
               /\ q.resps[1].status \notin {200, 204, 403}
               /\ q.made = {}

\* A PUT with a valid body on another user's song has been answered 404.
C1_Witness ==
    \E r \in Slots :
        /\ req[r].pc = "done"
        /\ req[r].ep = "put"
        /\ req[r].token # Null
        /\ Validate(req[r].body) = "ok"
        /\ \E s \in songs : s.id = req[r].sid /\ s.user_id # req[r].token.user_id
        /\ req[r].resps = <<NotFound("error")>>

\* C2: the guard does exactly one of two things.  Without a header whose second
\* word is a token that privateKey signed and that has not expired, it answers
\* 401 'Unauthorized', does not call next, and the handler issues no storage
\* operation; otherwise it attaches the token's claims, calls next once and
\* sends no response of its own.
C2_GuardEitherOr ==
    \A r \in Slots :
        LET q == req[r]
            valid == /\ q.hdr.k = "value"
                     /\ Len(q.hdr.parts) >= 2
                     /\ q.hdr.parts[2].k = "jwt"
                     /\ q.hdr.parts[2].sig = "good"
                     /\ q.hdr.parts[2].hasExp => now < q.hdr.parts[2].exp
        IN  (q.pc # "idle" /\ q.ep # "login")
            => IF valid
               THEN /\ q.nextCalls = 1
                    /\ q.token.k = "claims"
                    /\ q.token.user_id = q.hdr.parts[2].user_id
                    /\ \A i \in 1..Len(q.resps) : q.resps[i].status # 401
               ELSE /\ q.nextCalls = 0
                    /\ q.token = Null
                    /\ q.resps = <<Unauthorized>>
                    /\ q.ops = 0
                    /\ q.pc = "done"

\* A request with a well-signed but expired token has been turned away.
C2_Witness ==
    \E r \in Slots :
        /\ req[r].pc = "done"
        /\ req[r].ep = "put"
        /\ req[r].hdr = Bearer(Expiring(1, 0, 0))
        /\ req[r].resps = <<Unauthorized>>
        /\ req[r].ops = 0

\* C3: decodeSessionToken never lets an exception escape.  It returns the claims
\* when the header's second word is a token that privateKey signed and that has
\* not expired, and null for everything else: no header, no second word, a word
\* that is no token, a wrong signature, an expired token.
C3_DecodeNeverThrows ==
    \A r \in Slots :
        LET q == req[r]
            valid == /\ q.hdr.k = "value"
                     /\ Len(q.hdr.parts) >= 2
                     /\ q.hdr.parts[2].k = "jwt"
                     /\ q.hdr.parts[2].sig = "good"
                     /\ q.hdr.parts[2].hasExp => now < q.hdr.parts[2].exp
        IN  q.pc = "decoded"
            => /\ q.token.k \in {"null", "claims"}
               /\ q.token.k = "claims" <=> valid
               /\ q.token.k = "claims" => q.token.user_id = q.hdr.parts[2].user_id

\* A request without Authorization header has been decoded to null.
C3_Witness ==
    \E r \in Slots :
        /\ req[r].pc = "decoded"
        /\ req[r].hdr = Absent
        /\ req[r].token = Null

\* C4: every session token login issues carries an expiry, so that the guard
\* stops accepting it at some time.
C4_IssuedTokenExpires ==
    \A t \in issued : t.hasExp

\* C5: a login whose verified subject has no User creates one User for it and
\* answers with that user's id and a session token for it.
C5_NewSubjectCreatesUser ==
    \A r \in Slots :
        LET q == req[r]
        IN  (/\ q.ep = "login"
             /\ q.pc = "done"
             /\ q.ext.k = "valid"
             /\ q.rejected = 0
             /\ q.found = Null)
            => /\ Cardinality({u \in users : u.google_login_id = q.ext.sub}) = 1
               /\ Len(q.resps) = 1
               /\ q.resps[1].status = 200
               /\ \E u \in users :
                     /\ u.google_login_id = q.ext.sub
                     /\ q.resps[1].data[1].user_id = u.id
                     /\ q.resps[1].data[1].session_jwt.user_id = u.id

\* C6: a login whose verified subject already has a User creates no row and
\* answers with that user's id, in the body and in the session token; so two
\* logins of one subject get the same user_id.
C6_ExistingUserReused ==
    /\ \A r \in Slots :
          LET q == req[r]
          IN  (/\ q.ep = "login"
               /\ q.pc = "done"
               /\ q.ext.k = "valid"
               /\ q.rejected = 0
               /\ \E u \in users : u.google_login_id = q.ext.sub)
              => /\ q.made = {}
                 /\ Len(q.resps) = 1
                 /\ q.resps[1].status = 200
                 /\ \E u \in users :
                       /\ u.google_login_id = q.ext.sub
                       /\ q.resps[1].data[1].user_id = u.id
                       /\ q.resps[1].data[1].session_jwt.user_id = u.id
    /\ \A i, j \in 1..Len(logins) :
          logins[i].sub = logins[j].sub => logins[i].user_id = logins[j].user_id

\* Two logins of one subject have been answered.
C6_Witness ==
    /\ Len(logins) = 2
    /\ logins[1].sub = logins[2].sub
    /\ \E r \in Slots : req[r].pc = "done" /\ req[r].ep = "login"

C8_VerifierFailureIsAuthFailure ==
    \A r \in Slots :
        LET q == req[r]
        IN  (q.ep = "login" /\ q.pc = "done" /\ q.ext.k = "invalid")
            => /\ Len(q.resps) = 1
               /\ q.resps[1].status \in {400, 401, 403}

\* C9: a create or update whose body breaks a validation rule (title, artist or
\* tab_text missing or empty; videos given and not a list; more than five
\* videos; a video entry without url or video_type) is answered 400 with the
\* rule's message and has issued no storage operation.
C9_InvalidBodyTouchesNoStorage ==
    \A r \in Slots :
        LET q == req[r]
            b == q.body
            rule ==
                IF b.title = "" \/ b.artist = "" \/ b.tab_text = ""
                THEN "title, artist, and tab_text are required"
                ELSE IF b.videos.k \notin {"absent", "list"}
                THEN "videos must be an array"
                ELSE IF b.videos.k = "list" /\ Len(b.videos.items) > 5
                THEN "Maximum of 5 videos allowed"
                ELSE IF /\ b.videos.k = "list"
                        /\ \E i \in 1..Len(b.videos.items) :
                              /\ b.videos.items[i].k = "obj"
                              /\ \/ b.videos.items[i].url = ""
                                 \/ b.videos.items[i].video_type = ""
                THEN "Each video must have a url and video_type"
                ELSE "ok"
        IN  (q.ep \in {"post", "put"} /\ q.pc # "idle" /\ q.token # Null /\ rule # "ok")
            => /\ q.pc = "done"
               /\ q.resps = <<BadRequest(rule)>>
               /\ q.ops = 0

\* C10: a create or update whose videos value is given and is no list (a string,
\* the empty one included, a number, 0 included, a boolean, an object) is
\* answered 400 'videos must be an array'.
C10_NonListVideosRejected ==
    \A r \in Slots :
        LET q == req[r]
        IN  (/\ q.ep \in {"post", "put"}
             /\ q.pc # "idle"
             /\ q.token # Null
             /\ q.body.title # "" /\ q.body.artist # "" /\ q.body.tab_text # ""
             /\ q.body.videos.k \in {"str", "num", "bool", "obj"})
            => /\ Len(q.resps) >= 1
               /\ q.resps[1] = BadRequest("videos must be an array")

\* C11: the 201 of a create carries the Song (id, title, artist), the Tab (its
\* id and text) and one video per entry of the body (id, video_type, url), with
\* the ids and values of the rows the request created.
C11_CreatedResponseEchoesRows ==
    \A r \in Slots :
        LET q == req[r]
            d == q.resps[1].data[1]
            items == VideoList(q.body)
        IN  (/\ q.ep = "post"
             /\ q.pc = "done"
             /\ Len(q.resps) = 1
             /\ q.resps[1].status = 201)
            => /\ d.song = [id |-> q.song.id, title |-> q.body.title,
                            artist |-> q.body.artist]
               /\ DOMAIN d.tab = {"id", "text"}
               /\ d.tab.text = q.body.tab_text
               /\ d.tab.id \in q.made
               /\ Len(d.videos) = Len(items)
               /\ \A i \in 1..Len(items) :
                     /\ DOMAIN d.videos[i] = {"id", "video_type", "url"}
                     /\ d.videos[i].id \in q.made
                     /\ d.videos[i].url = items[i].url
                     /\ d.videos[i].video_type = items[i].video_type

\* C12: every Song whose create was answered 201 and that is still stored has
\* exactly one Tab row, here in the states where no request is running.
C12_CreatedSongHasOneTab ==
    (\A r \in Slots : req[r].pc \in {"idle", "done"})
    => \A s \in songs :
          s.id \in created => Cardinality({t \in tabs : t.song_id = s.id}) = 1

\* C13: in every state, the intermediate states of one update included, no
\* Song is referenced by more than 5 Video rows.
C13_AtMostFiveVideos ==
    \A s \in songs : Cardinality({v \in videos : v.song_id = s.id}) <= MaxVideos

\* C14: once a PUT has been answered 200 for title T and artist A, the stored
\* Song row has title T and artist A.
C14_UpdateStoresTitleArtist ==
    \A r \in Slots :
        LET q == req[r]
        IN  (/\ q.ep = "put" /\ q.pc = "done"
             /\ Len(q.resps) = 1 /\ q.resps[1].status = 200)
            => \E s \in songs : /\ s.id = q.sid
                                /\ s.title = q.body.title
                                /\ s.artist = q.body.artist

\* C15: a PUT on an owned Song that has no Tab row (Tab.findOne returned null
\* and no storage operation of the request failed) ends with exactly one
\* response, an error, and leaves the song without a Tab row.
C15_UpdateWithoutTabIsError ==
    \A r \in Slots :
        LET q == req[r]
        IN  (/\ q.ep = "put" /\ q.pc = "done"
             /\ q.tabP = "rej" /\ q.rejected = 0)
            => /\ Len(q.resps) = 1
               /\ q.resps[1].status >= 400
               /\ {t \in tabs : t.song_id = q.sid} = {}

\* C16: once a PUT with video list L has been answered 200 and its storage
\* operations have finished, the song's Video rows are: every Video that
\* existed and whose id is in L, under its id with the url and video_type of
\* its entry; one new row per entry of L without an id; and nothing else.
C16_UpdateReconcilesVideos ==
    \A r \in Slots :
        LET q == req[r]
            L == VideoList(q.body)
            was == q.existing[1]
            wasIds == {v.id : v \in was}
            stored == {v \in videos : v.song_id = q.sid}
            fresh == {v \in stored : v.id \notin wasIds}
            noId == {i \in 1..Len(L) : L[i].id = 0}
        IN  (/\ q.ep = "put" /\ q.pc = "done" /\ Len(q.existing) = 1
             /\ Len(q.resps) = 1 /\ q.resps[1].status = 200)
            => /\ \A v \in was :
                    IF \E i \in 1..Len(L) : L[i].id = v.id
                    THEN \E i \in 1..Len(L) :
                            /\ L[i].id = v.id
                            /\ [v EXCEPT !.url = L[i].url,
                                         !.video_type = L[i].video_type] \in stored
                    ELSE \A w \in stored : w.id # v.id
               /\ Cardinality(fresh) = Cardinality(noId)
               /\ \A v \in fresh :
                    \E i \in noId : v.url = L[i].url /\ v.video_type = L[i].video_type

\* C17: the 200 of a PUT carries the Song (id, new title, new artist), the Tab
\* (its id and the new text) and the song's resulting Video set, one element
\* (id, video_type, url) per stored Video.
C17_UpdatedResponseEchoesRows ==
    \A r \in Slots :
        LET q == req[r]
            d == q.resps[1].data[1]
            stored == {v \in videos : v.song_id = q.sid}
        IN  (/\ q.ep = "put" /\ q.pc = "done"
             /\ Len(q.resps) = 1 /\ q.resps[1].status = 200)
            => /\ d.song = [id |-> q.sid, title |-> q.body.title, artist |-> q.body.artist]
               /\ DOMAIN d.tab = {"id", "text"}
               /\ d.tab.text = q.body.tab_text
               /\ \E t \in tabs : t.song_id = q.sid /\ t.id = d.tab.id
               /\ Len(d.videos) = Cardinality(stored)
               /\ \A i \in 1..Len(d.videos) :
                     /\ DOMAIN d.videos[i] = {"id", "video_type", "url"}
                     /\ \E v \in stored : d.videos[i] = VideoView(v)

\* The list of a PUT names exactly the rows Video.findAll returned, each with
\* its id, url and video_type: the list of an earlier call, sent again with the
\* ids storage assigned.
C18_SameList(q) ==
    LET L == VideoList(q.body)
        was == q.existing[1]
    IN  /\ q.ep = "put" /\ Len(q.existing) = 1
        /\ Len(L) = Cardinality(was)
        /\ \A v \in was :
              \E i \in 1..Len(L) : /\ L[i].id = v.id
                                   /\ L[i].url = v.url
                                   /\ L[i].video_type = v.video_type

C19_StorageFailureIs500 ==
    \A r \in Slots :
        LET q == req[r]
        IN  (q.ep \notin {"none", "login"} /\ q.pc = "done" /\ q.rejected > 0)
            => q.resps = <<InternalError>>

\* C20: with one request at a time, once a DELETE has been answered 204 storage
\* holds no Song with that id and no Tab or Video that references it; and a GET
\* of a song, its tab or its videos for an id that has no Song row is answered
\* 404 'Song not found' unless its lookup failed.
C20_DeletedSongIsGone ==
    \A r \in Slots :
        LET q == req[r]
        IN  /\ (/\ q.ep = "delete" /\ q.pc = "done"
                /\ Len(q.resps) = 1 /\ q.resps[1].status = 204)
               => /\ \A s \in songs : s.id # q.sid
                  /\ \A t \in tabs : t.song_id # q.sid
                  /\ \A v \in videos : v.song_id # q.sid
            /\ (/\ q.ep \in {"getSong", "getTab", "getVideos"} /\ q.pc = "done"
                /\ q.rejected = 0 /\ \A s \in songs : s.id # q.sid)
               => /\ Len(q.resps) = 1
                  /\ q.resps[1].status = 404
                  /\ q.resps[1].message = "Song not found"

\* A GET of song 3 answered 404 after its DELETE removed the song, its Tab and
\* its Videos.
C20_Witness ==
    \E r \in Slots :
        LET q == req[r]
        IN  /\ q.ep \in {"getSong", "getTab", "getVideos"} /\ q.pc = "done"
            /\ q.sid = 3 /\ Len(q.resps) = 1 /\ q.resps[1].status = 404
            /\ \A s \in songs : s.id # 3
            /\ \A t \in tabs : t.song_id # 3
            /\ \A v \in videos : v.song_id # 3

\* C21: the three deletions of a DELETE are one unit.  Once a DELETE that found
\* its song has ended: if it was answered with an error, the Song and its Tab
\* are still stored; and if the Song is gone, so are its Tab and its Videos.
C21_DeleteAllOrNothing ==
    \A r \in Slots :
        LET q == req[r]
            song == {s \in songs : s.id = q.sid}
            deps == {t \in tabs : t.song_id = q.sid} \cup {v \in videos : v.song_id = q.sid}
        IN  (q.ep = "delete" /\ q.pc = "done" /\ q.song # Null)
            => /\ (Len(q.resps) = 1 /\ q.resps[1].status >= 400)
                  => (song # {} /\ \E t \in tabs : t.song_id = q.sid)
               /\ song = {} => deps = {}

\* C22: in a PUT, the 200 is sent only when every destroy, save and create of
\* the reconciliation, and the Tab save, has completed: a PUT that carries its
\* 200 has no storage operation in flight.
C22_UpdateRespondsAfterAllOps ==
    \A r \in Slots :
        LET q == req[r]
        IN  (q.ep = "put" /\ Len(q.resps) >= 1 /\ q.resps[1].status = 200)
            => q.pend = {}

\* C23: in every state, every Tab row and every Video row references a Song
\* row that is stored.
C23_NoOrphanedDependents ==
    /\ \A t \in tabs : \E s \in songs : s.id = t.song_id
    /\ \A v \in videos : \E s \in songs : s.id = v.song_id

\* C24: a step of a PUT or DELETE addressed to song S leaves every Song row
\* other than S, and every Tab and Video row of another song, as it was,
\* whatever the body, a video entry with the id of another song's Video
\* included.
C24_OtherSongsUntouched ==
    [][\A r \in Slots :
          LET sid == req[r].sid
          IN  (req[r].ep \in {"put", "delete"} /\ req'[r] # req[r])
              => /\ {s \in songs' : s.id # sid} = {s \in songs : s.id # sid}
                 /\ {t \in tabs' : t.song_id # sid} = {t \in tabs : t.song_id # sid}
                 /\ {v \in videos' : v.song_id # sid} = {v \in videos : v.song_id # sid}
      ]_vars

\* User 2's PUT on song 4, whose list has an entry with the id of video 7 of
\* user 1's song 3, has been answered 200 and video 7 is as it was.
C24_Witness ==
    \E r \in Slots :
        LET q == req[r]
            L == VideoList(q.body)
        IN  /\ q.ep = "put" /\ q.pc = "done" /\ q.sid = 4
            /\ Len(q.resps) = 1 /\ q.resps[1].status = 200
            /\ \E i \in 1..Len(L) : L[i].id = 7 /\ L[i].url = "u2"
            /\ [id |-> 7, video_type |-> "yt", url |-> "u", song_id |-> 3] \in videos

C26_AtMostOneResponse ==
    \A r \in Slots : Len(req[r].resps) <= 1

\* A DELETE whose Tab.destroy succeeded and one of whose other destroys failed
\* has ended with its single response, the 500.
C26_Witness ==
    \E r \in Slots :
        LET q == req[r]
        IN  /\ q.ep = "delete" /\ q.pc = "done" /\ q.song # Null
            /\ q.rejected = 1 /\ q.ops = 4
            /\ q.resps = <<InternalError>>
            /\ \A t \in tabs : t.song_id # q.sid

====
